---- MODULE Spec2Model ----
(***************************************************************************)
(* Model of the entity-component database of src/src/ecs.cpp: the world's  *)
(* four statics (id counter, archetype index, archetype store, entity      *)
(* registry), the entity handles with their constructor, move constructor, *)
(* destructor, Get, Set and HasComponent, and the components_view          *)
(* iterator.  The imported containers (FlatHashMap, BitwiseTrie) are not   *)
(* part of the source file; they are modelled from their documented        *)
(* contract.                                                               *)
(***************************************************************************)
EXTENDS Integers, Sequences, FiniteSets, TLC

VARIABLES
    s_next_entity_id,           \* World::s_next_entity_id
    s_component_trie,           \* World::s_component_trie
    s_component_archetype_map,  \* World::s_component_archetype_map
    s_entity_archetype_map,     \* World::s_entity_archetype_map
    handles,                    \* every Entity object ever constructed
    ctor,                       \* per thread: the constructor it is inside of
    view,                       \* the components_view being iterated, if any
    other,                      \* the statics and handles of a second World<Tag>
    tu                          \* the component ids the compiler has assigned

vars == <<s_next_entity_id, s_component_trie, s_component_archetype_map,
          s_entity_archetype_map, handles, ctor, view, other, tu>>

(***************************************************************************)
(* Bounds.                                                                 *)
(***************************************************************************)
\* Entity objects (constructed or move-constructed) in one run.
MaxHandles == 2
\* Bits of component_bitfield_t the index walks (128 in the program).
KeyWidth == 2

(***************************************************************************)
(* The client program: its component types, entity types and defaults.     *)
(***************************************************************************)
\* ecs_component_id: dense ids in order of first use.
Position == 0
Velocity == 1

\* Entity types of the program; each mixes in WithComponent markers.
EntityTypes == {"A", "B", "C"}

\* components_from_bases_t<base_list_t<Derived>>: the component tuple.
ComponentsOf(d) ==
    CASE d = "A" -> <<Position>>
      [] d = "B" -> <<Position, Velocity>>
      [] d = "C" -> <<Velocity, Position>>

\* Component values; 0 is the value-initialized component.
Values == {0, 1}

\* Default<Derived, Component>::value where specialised.
HasDefault(d, c) == d = "B" /\ c = Velocity
DefaultOf(d, c) == 1

\* Threads that may be inside an Entity constructor.
Threads == {"t1", "t2"}

\* Component tuples a view is instantiated with.
Queries == {<<Position>>, <<Velocity>>, <<Position, Velocity>>,
            <<Velocity, Position>>}

Range(s) == {s[i] : i \in 1..Len(s)}

(***************************************************************************)
(* Component ids.  The compiler keeps the set of Counter<Id> whose friend  *)
(* is_defined is defined; instantiating component_traits<T> for a new      *)
(* component type T takes the first Id not in that set, defines it, and    *)
(* asserts it against kMaxComponents.  tu.ids[k] is the id of the k-th     *)
(* component type instantiated.                                            *)
(***************************************************************************)
kMaxComponents == 128

\* Component types the client program declares.
MaxTypes == 129

\* the translation unit before any component_traits is instantiated
EmptyTU == [defined |-> {}, ids |-> <<>>, status |-> "ok"]

\* ecs_component_id<Component, Id>: Counter<Id>::exists ? recurse : Id
RECURSIVE ecs_component_id(_, _)
ecs_component_id(defined, Id) ==
    IF Id \in defined THEN ecs_component_id(defined, Id + 1) ELSE Id

\* the static_assert as it would be with <= for <
static_assert_id_Inclusive(id) == id <= kMaxComponents

\* static_assert(id < kMaxComponents, ...)
static_assert_id(id) == id < kMaxComponents

\* component_traits<T> for a component type not instantiated before
component_traits(t) ==
    LET id == ecs_component_id(t.defined, 0)
    IN  IF static_assert_id(id)
        THEN [defined |-> t.defined \cup {id},
              ids |-> Append(t.ids, id), status |-> "ok"]
        ELSE [defined |-> t.defined \cup {id},
              ids |-> t.ids, status |-> "rejected"]

\* the translation unit after the first n component types
RECURSIVE Compiled(_)
Compiled(n) == IF n = 0 THEN EmptyTU ELSE component_traits(Compiled(n - 1))

(***************************************************************************)
(* component_bitfield_t arithmetic.                                        *)
(***************************************************************************)
RECURSIVE Pow2(_)
Pow2(n) == IF n = 0 THEN 1 ELSE 2 * Pow2(n - 1)

\* a & b
RECURSIVE BitAnd(_, _)
BitAnd(a, b) ==
    IF a = 0 \/ b = 0 THEN 0
    ELSE (a % 2) * (b % 2) + 2 * BitAnd(a \div 2, b \div 2)

\* a | b
RECURSIVE BitOr(_, _)
BitOr(a, b) ==
    IF a = 0 THEN b
    ELSE IF b = 0 THEN a
    ELSE (IF a % 2 = 1 \/ b % 2 = 1 THEN 1 ELSE 0)
         + 2 * BitOr(a \div 2, b \div 2)

\* component_bitfield as it would be OR-ing the ids, not the bits 1 << id
RECURSIVE component_bitfield_OrIds(_)
component_bitfield_OrIds(tuple) ==
    IF tuple = <<>> THEN 0
    ELSE BitOr(Head(tuple), component_bitfield_OrIds(Tail(tuple)))

\* component_bitfield<Tuple>::helper: 1 << id | helper<Tail...>::value
RECURSIVE component_bitfield(_)
component_bitfield(tuple) ==
    IF tuple = <<>> THEN 0
    ELSE BitOr(Pow2(Head(tuple)), component_bitfield(Tail(tuple)))

ecs_component_mask(tuple) == component_bitfield(tuple)

(***************************************************************************)
(* FlatHashMap<K, V>: a sequence of (first, second) pairs in iteration     *)
(* order.  Keys are unique.  The layout is a function of the history of    *)
(* insertions and erasures alone.                                          *)
(***************************************************************************)
MapKeys(m) == {m[i].first : i \in 1..Len(m)}

MapContains(m, k) == k \in MapKeys(m)

MapPos(m, k) == CHOOSE i \in 1..Len(m) : m[i].first = k

\* the mapped value of a present key
MapAt(m, k) == m[MapPos(m, k)].second

\* insert(pair): no effect when the key is present
MapInsert(m, k, v) ==
    IF MapContains(m, k) THEN m ELSE Append(m, [first |-> k, second |-> v])

\* operator[]: inserts a value-initialized entry when the key is absent
MapIndex(m, k, dflt) == MapInsert(m, k, dflt)

\* operator[](k) = v
MapAssign(m, k, v, dflt) ==
    LET m1 == MapIndex(m, k, dflt)
    IN  [i \in 1..Len(m1) |->
            IF m1[i].first = k THEN [first |-> k, second |-> v] ELSE m1[i]]

\* erase(k)
MapErase(m, k) == SelectSeq(m, LAMBDA p : p.first # k)

\* the key sequence begin()..end() walks
MapOrder(m) == [i \in 1..Len(m) |-> m[i].first]

(***************************************************************************)
(* BitwiseTrie<component_bitfield_t> and trie_view_match_mask: the set of  *)
(* stored keys, enumerated depth first from the most significant bit,      *)
(* descending only the 1-subtree where the query mask has a 1.             *)
(***************************************************************************)
TrieInsert(trie, key) == trie \cup {key}

RECURSIVE TrieWalk(_, _, _, _)
TrieWalk(trie, mask, bit, prefix) ==
    IF bit = 0
    THEN IF prefix \in trie THEN <<prefix>> ELSE <<>>
    ELSE LET b    == bit - 1
             one  == TrieWalk(trie, mask, b, prefix + Pow2(b))
             zero == TrieWalk(trie, mask, b, prefix)
         IN  IF (mask \div Pow2(b)) % 2 = 1 THEN one ELSE zero \o one

\* trie_view_match_mask{trie_view(trie), mask}: begin()..end()
trie_view_match_mask(trie, mask) == TrieWalk(trie, mask, KeyWidth, 0)

(***************************************************************************)
(* Archetype / TypeErasedArchetype: one column (a FlatHashMap from entity  *)
(* id to component value) per component id of the tuple.  The dispatch     *)
(* table has an entry exactly for the component ids of the tuple.          *)
(***************************************************************************)
\* TypeErasedArchetype{Archetype<components_type>{}}
NewArchetype(tuple) == [c \in Range(tuple) |-> <<>>]

\* TypeErasedArchetype() = default: empty std::any, no dispatch entry
DefaultArchetype == [c \in {} |-> <<>>]

\* Archetype::Get: map[id], by way of m_getters[cid]
ArchetypeGet(arch, c, id) ==
    IF c \in DOMAIN arch
    THEN [arch EXCEPT ![c] = MapIndex(@, id, 0)]
    ELSE arch

\* the reference Archetype::Get returns
ArchetypeGetValue(arch, c, id) == MapAt(ArchetypeGet(arch, c, id)[c], id)

\* Archetype::Set: map[id] = value, by way of m_copyers / m_movers
ArchetypeSet(arch, c, id, value) ==
    IF c \in DOMAIN arch
    THEN [arch EXCEPT ![c] = MapAssign(@, id, value, 0)]
    ELSE arch

\* Clear as it would be if it emptied the column
ArchetypeClear_All(arch, c, id) ==
    IF c \in DOMAIN arch
    THEN [arch EXCEPT ![c] = <<>>]
    ELSE arch

\* Archetype::Clear: map.erase(id), by way of m_erasers
ArchetypeClear(arch, c, id) ==
    IF c \in DOMAIN arch
    THEN [arch EXCEPT ![c] = MapErase(@, id)]
    ELSE arch

\* set_cell as it would be without the has_defaults branch
set_cell_NoDefault(arch, d, c, eid) == ArchetypeSet(arch, c, eid, 0)

\* add_row::set_cell<Component>
set_cell(arch, d, c, eid) ==
    IF HasDefault(d, c)
    THEN ArchetypeSet(arch, c, eid, DefaultOf(d, c))
    ELSE ArchetypeSet(arch, c, eid, 0)

\* add_row::operator(): (set_cell<Components>(archetype, eid), ...)
RECURSIVE add_row_fold(_, _, _, _)
add_row_fold(arch, d, tuple, eid) ==
    IF tuple = <<>> THEN arch
    ELSE add_row_fold(set_cell(arch, d, Head(tuple), eid), d, Tail(tuple), eid)

add_row(arch, d, eid) == add_row_fold(arch, d, ComponentsOf(d), eid)

\* drop_row::operator(): ((archetype.Clear<Components>(eid)), ...)
RECURSIVE drop_row(_, _, _)
drop_row(arch, tuple, eid) ==
    IF tuple = <<>> THEN arch
    ELSE drop_row(ArchetypeClear(arch, Head(tuple), eid), Tail(tuple), eid)

(***************************************************************************)
(* World.  The three containers travel as one record w.                    *)
(***************************************************************************)
World ==
    [trie |-> s_component_trie,
     archetype_map |-> s_component_archetype_map,
     entity_map |-> s_entity_archetype_map]

\* AllocateID as it would be with a load in place of the fetch_add
AllocateID_NoAdd(next) == [id |-> next, next |-> next]

\* s_next_entity_id.fetch_add(1): the value returned and the value stored.
\* The run allocates far fewer than 2^64 ids, so the counter never wraps.
AllocateID(next) == [id |-> next, next |-> next + 1]

\* Register as it would be without line 826, s_component_trie.Insert
Register_NoIndex(w, m_id, d) ==
    LET components == ecs_component_mask(ComponentsOf(d))
        map1  == MapInsert(w.archetype_map, components,
                           NewArchetype(ComponentsOf(d)))
        reg1  == MapInsert(w.entity_map, m_id, components)
        map3  == MapAssign(map1, components,
                           add_row(MapAt(map1, components), d, m_id),
                           DefaultArchetype)
    IN  [trie |-> w.trie, archetype_map |-> map3, entity_map |-> reg1]

\* Register as it would be if it made a new table on every registration
Register_Replaces(w, m_id, d) ==
    LET components == ecs_component_mask(ComponentsOf(d))
        found == MapContains(w.archetype_map, components)
        map1  == MapAssign(w.archetype_map, components,
                           NewArchetype(ComponentsOf(d)), DefaultArchetype)
        trie1 == IF found THEN w.trie ELSE TrieInsert(w.trie, components)
        reg1  == MapInsert(w.entity_map, m_id, components)
        map3  == MapAssign(map1, components,
                           add_row(MapAt(map1, components), d, m_id),
                           DefaultArchetype)
    IN  [trie |-> trie1, archetype_map |-> map3, entity_map |-> reg1]

\* World::Register
Register(w, m_id, d) ==
    LET components == ecs_component_mask(ComponentsOf(d))
        found == MapContains(w.archetype_map, components)
        map1  == IF found THEN w.archetype_map
                 ELSE MapInsert(w.archetype_map, components,
                                NewArchetype(ComponentsOf(d)))
        trie1 == IF found THEN w.trie ELSE TrieInsert(w.trie, components)
        reg1  == MapInsert(w.entity_map, m_id, components)
        map2  == MapIndex(map1, components, DefaultArchetype)
        map3  == MapAssign(map2, components,
                           add_row(MapAt(map2, components), d, m_id),
                           DefaultArchetype)
    IN  [trie |-> trie1, archetype_map |-> map3, entity_map |-> reg1]

\* Unregister as it would be if it removed a table that has become empty
Unregister_DropsEmpty(w, m_id, d) ==
    LET reg1 == MapIndex(w.entity_map, m_id, 0)
        components == MapAt(reg1, m_id)
        map1 == MapIndex(w.archetype_map, components, DefaultArchetype)
        arch == drop_row(MapAt(map1, components), ComponentsOf(d), m_id)
        empty == \A c \in DOMAIN arch : arch[c] = <<>>
    IN  [trie |-> IF empty THEN w.trie \ {components} ELSE w.trie,
         archetype_map |-> IF empty THEN MapErase(map1, components)
                           ELSE MapAssign(map1, components, arch,
                                          DefaultArchetype),
         entity_map |-> reg1]

\* World::Unregister
Unregister(w, m_id, d) ==
    LET reg1 == MapIndex(w.entity_map, m_id, 0)
        components == MapAt(reg1, m_id)
        map1 == MapIndex(w.archetype_map, components, DefaultArchetype)
        map2 == MapAssign(map1, components,
                          drop_row(MapAt(map1, components), ComponentsOf(d), m_id),
                          DefaultArchetype)
    IN  [trie |-> w.trie, archetype_map |-> map2, entity_map |-> reg1]

(***************************************************************************)
(* Entity.                                                                 *)
(***************************************************************************)
\* has_component<Entity, Component>(): the requires-clause of Get and Set
has_component(d, c) == c \in Range(ComponentsOf(d))

\* Entity::Get: the database after the call
EntityGet(w, m_id, c) ==
    LET reg1 == MapIndex(w.entity_map, m_id, 0)
        components == MapAt(reg1, m_id)
        map1 == MapIndex(w.archetype_map, components, DefaultArchetype)
        map2 == MapAssign(map1, components,
                          ArchetypeGet(MapAt(map1, components), c, m_id),
                          DefaultArchetype)
    IN  [trie |-> w.trie, archetype_map |-> map2, entity_map |-> reg1]

\* the Component that Entity::Get returns
EntityGetValue(w, m_id, c) ==
    LET reg1 == MapIndex(w.entity_map, m_id, 0)
        components == MapAt(reg1, m_id)
        map1 == MapIndex(w.archetype_map, components, DefaultArchetype)
    IN  ArchetypeGetValue(MapAt(map1, components), c, m_id)

\* Entity::Set
EntitySet(w, m_id, c, value) ==
    LET reg1 == MapIndex(w.entity_map, m_id, 0)
        components == MapAt(reg1, m_id)
        map1 == MapIndex(w.archetype_map, components, DefaultArchetype)
        map2 == MapAssign(map1, components,
                          ArchetypeSet(MapAt(map1, components), c, m_id, value),
                          DefaultArchetype)
    IN  [trie |-> w.trie, archetype_map |-> map2, entity_map |-> reg1]

\* Entity::HasComponent: the database after the call
EntityHasComponent(w, m_id, c) ==
    [w EXCEPT !.entity_map = MapIndex(@, m_id, 0)]

\* HasComponent as it would be testing the component id, not the bit 1 << id
HasComponentValue_IdAsMask(w, m_id, c) ==
    LET components == MapAt(MapIndex(w.entity_map, m_id, 0), m_id)
    IN  BitAnd(components, c) = c

\* the value Entity::HasComponent returns
HasComponentValue(w, m_id, c) ==
    LET components == MapAt(MapIndex(w.entity_map, m_id, 0), m_id)
        mask == Pow2(c)
    IN  BitAnd(components, mask) = mask

(***************************************************************************)
(* ColumnSetIterator<Components...>: one FlatHashMap iterator per queried  *)
(* component, each a position in its column of one archetype.  Position    *)
(* Len + 1 is the column's end(); position 0 is a default-constructed      *)
(* iterator.                                                               *)
(***************************************************************************)
\* ColumnSetIterator() = default
DefaultRow(Q) == [arch |-> -1, pos |-> [c \in Range(Q) |-> 0]]

ColumnLen(arch, c) == IF c \in DOMAIN arch THEN Len(arch[c]) ELSE 0

\* TypeErasedArchetype::begin<Components...>()
ArchetypeBegin(arch, key, Q) ==
    [arch |-> key, pos |-> [c \in Range(Q) |-> 1]]

\* TypeErasedArchetype::end<Components...>()
ArchetypeEnd(arch, key, Q) ==
    [arch |-> key, pos |-> [c \in Range(Q) |-> ColumnLen(arch, c) + 1]]

\* ColumnSetIterator::operator++: every column iterator advances by one
ColumnSetIncr(row) == [row EXCEPT !.pos = [c \in DOMAIN @ |-> @[c] + 1]]

\* the columns of a row iterator that stand at their end()
AtEnd(arch, row) == {c \in DOMAIN row.pos : row.pos[c] > ColumnLen(arch, c)}

\* ColumnSetIterator::operator* where every column iterator is dereferenceable:
\* the id comes from the first column, each reference from its own column
ColumnSetDeref(arch, row, Q) ==
    [arch |-> row.arch,
     eid  |-> arch[Q[1]][row.pos[Q[1]]].first,
     refs |-> [c \in Range(Q) |-> arch[c][row.pos[c]].second]]

(***************************************************************************)
(* components_view<World, Components...>::Iterator.                        *)
(***************************************************************************)
\* Iterator(begin, end): the context before the constructor calls next_row
InitialContext(Q, begin, end) ==
    [m_stage |-> "eBeginArchetype",
     m_curr_archetype_it |-> begin,
     m_sentinel_archetype_it |-> end,
     m_curr_row |-> DefaultRow(Q),
     m_sentinel_row |-> DefaultRow(Q)]

\* Iterator::next_row.  archs is the range of the trie_view_match_mask the
\* archetype iterators walk; the result carries the context, the archetype
\* store (line 913 reads it with operator[]) and the archetypes opened.
RECURSIVE next_row(_, _, _, _)
RECURSIVE after_increment(_, _, _, _)
RECURSIVE begin_archetype(_, _, _, _)

\* case eNextRow, after ++m_ctx.m_curr_row
after_increment(ctx, map, Q, archs) ==
    IF ctx.m_curr_row = ctx.m_sentinel_row
    THEN next_row([ctx EXCEPT !.m_stage = "eNextArchetype"], map, Q, archs)
    ELSE [ctx |-> ctx, map |-> map, opened |-> <<>>]

\* case eBeginArchetype as it would be if an archetype without rows ended
\* the iteration instead of passing to the next archetype
begin_archetype_EmptyEnds(ctx, map, Q, archs) ==
    IF ctx.m_curr_archetype_it = ctx.m_sentinel_archetype_it
    THEN [ctx |-> [ctx EXCEPT !.m_stage = "eFinished"],
          map |-> map, opened |-> <<>>]
    ELSE LET key  == archs[ctx.m_curr_archetype_it]
             map1 == MapIndex(map, key, DefaultArchetype)
             arch == MapAt(map1, key)
             c1   == [ctx EXCEPT
                        !.m_curr_row = ArchetypeBegin(arch, key, Q),
                        !.m_sentinel_row = ArchetypeEnd(arch, key, Q)]
         IN  IF c1.m_curr_row = c1.m_sentinel_row
             THEN [ctx |-> [c1 EXCEPT !.m_stage = "eFinished"],
                   map |-> map1, opened |-> <<key>>]
             ELSE [ctx |-> [c1 EXCEPT !.m_stage = "eNextRow"],
                   map |-> map1, opened |-> <<key>>]

\* case eBeginArchetype
begin_archetype(ctx, map, Q, archs) ==
    IF ctx.m_curr_archetype_it = ctx.m_sentinel_archetype_it
    THEN [ctx |-> [ctx EXCEPT !.m_stage = "eFinished"],
          map |-> map, opened |-> <<>>]
    ELSE LET key  == archs[ctx.m_curr_archetype_it]
             map1 == MapIndex(map, key, DefaultArchetype)
             arch == MapAt(map1, key)
             c1   == [ctx EXCEPT
                        !.m_curr_row = ArchetypeBegin(arch, key, Q),
                        !.m_sentinel_row = ArchetypeEnd(arch, key, Q)]
         IN  IF c1.m_curr_row = c1.m_sentinel_row
             THEN LET r == next_row(
                             [c1 EXCEPT !.m_stage = "eNextArchetype"],
                             map1, Q, archs)
                  IN  [r EXCEPT !.opened = <<key>> \o @]
             ELSE [ctx |-> [c1 EXCEPT !.m_stage = "eNextRow"],
                   map |-> map1, opened |-> <<key>>]

next_row(ctx, map, Q, archs) ==
    CASE ctx.m_stage = "eNextArchetype" ->
            \* ++m_curr_archetype_it, then falls through
            begin_archetype([ctx EXCEPT !.m_curr_archetype_it = @ + 1],
                            map, Q, archs)
      [] ctx.m_stage = "eBeginArchetype" ->
            begin_archetype(ctx, map, Q, archs)
      [] ctx.m_stage = "eNextRow" ->
            after_increment([ctx EXCEPT !.m_curr_row = ColumnSetIncr(@)],
                            map, Q, archs)
      [] OTHER ->
            \* eFinished: pe::assert(false)
            [ctx |-> ctx, map |-> map, opened |-> <<>>]

\* components_view::end(): Iterator(m_arch_view.end(), m_arch_view.end())
ViewEnd(map, Q, archs) ==
    next_row(InitialContext(Q, Len(archs) + 1, Len(archs) + 1),
             map, Q, archs).ctx

\* next_row reaches pe::assert(false): case eFinished
next_row_asserts(ctx) == ctx.m_stage = "eFinished"

\* operator== as it would be without the test for two finished iterators
IteratorEq_NoFinished(a, b) ==
    /\ a.m_stage = b.m_stage
    /\ a.m_curr_archetype_it = b.m_curr_archetype_it
    /\ a.m_sentinel_archetype_it = b.m_sentinel_archetype_it
    /\ a.m_curr_row = b.m_curr_row
    /\ a.m_sentinel_row = b.m_sentinel_row

\* Iterator operator==; the defaulted comparison of GeneratorContext
\* compares the five members
IteratorEq(a, b) ==
    IF a.m_stage = "eFinished" /\ b.m_stage = "eFinished"
    THEN TRUE
    ELSE /\ a.m_stage = b.m_stage
         /\ a.m_curr_archetype_it = b.m_curr_archetype_it
         /\ a.m_sentinel_archetype_it = b.m_sentinel_archetype_it
         /\ a.m_curr_row = b.m_curr_row
         /\ a.m_sentinel_row = b.m_sentinel_row

\* no view exists
NoView ==
    [Q |-> <<>>, archs |-> <<>>,
     ctx |-> [m_stage |-> "none",
              m_curr_archetype_it |-> 0, m_sentinel_archetype_it |-> 0,
              m_curr_row |-> DefaultRow(<<>>),
              m_sentinel_row |-> DefaultRow(<<>>)],
     yielded |-> <<>>, opened |-> <<>>, failed |-> FALSE]

(***************************************************************************)
(* State machine.                                                          *)
(***************************************************************************)
Idle == [pc |-> "idle", m_id |-> 0, type |-> "-"]

\* a second world, World<Tag> for another Tag, before its first entity
NoOther ==
    [next_id |-> 0,
     w |-> [trie |-> {}, archetype_map |-> <<>>, entity_map |-> <<>>],
     handles |-> <<>>]

Init ==
    /\ s_next_entity_id = 0
    /\ s_component_trie = {}
    /\ s_component_archetype_map = <<>>
    /\ s_entity_archetype_map = <<>>
    /\ handles = <<>>
    /\ ctor = [t \in Threads |-> Idle]
    /\ view = NoView
    /\ other = NoOther
    /\ tu = Compiled(2)

\* the statics after an operation that leaves the database as w
Store(w) ==
    /\ s_component_trie' = w.trie
    /\ s_component_archetype_map' = w.archetype_map
    /\ s_entity_archetype_map' = w.entity_map

\* No view is being iterated.  Handle operations run between iterations: an
\* iteration works on a fixed snapshot of the database.
Quiet == view.ctx.m_stage = "none"

\* Entity objects constructed or under construction
Objects == Len(handles) + Cardinality({t \in Threads : ctor[t].pc # "idle"})

\* Entity handles whose destructor has not run
Alive == {h \in 1..Len(handles) : handles[h].alive}

\* Entity::Entity, first half: the member initializer m_id{AllocateID()}
CtorAllocate(t, d) ==
    /\ Quiet
    /\ ctor[t].pc = "idle"
    /\ Objects < MaxHandles
    /\ LET a == AllocateID(s_next_entity_id)
       IN  /\ s_next_entity_id' = a.next
           /\ ctor' = [ctor EXCEPT ![t] =
                         [pc |-> "register", m_id |-> a.id, type |-> d]]
    /\ UNCHANGED <<other, tu, s_component_trie, s_component_archetype_map,
                   s_entity_archetype_map, handles, view>>

\* Entity::Entity, second half: the body, world_type::Register(*this, bitmap)
CtorRegister(t) ==
    /\ Quiet
    /\ ctor[t].pc = "register"
    /\ Store(Register(World, ctor[t].m_id, ctor[t].type))
    /\ handles' = Append(handles, [m_id |-> ctor[t].m_id,
                                   type |-> ctor[t].type, alive |-> TRUE])
    /\ ctor' = [ctor EXCEPT ![t] = Idle]
    /\ UNCHANGED <<other, tu, s_next_entity_id, view>>

\* Entity(Entity&&) = default: the new object copies m_id; neither the
\* default member initializer nor the constructor body runs, and the source
\* object is left as it was.
MoveConstruct(h) ==
    /\ Quiet
    /\ h \in Alive
    /\ Objects < MaxHandles
    /\ handles' = Append(handles, [m_id |-> handles[h].m_id,
                                   type |-> handles[h].type, alive |-> TRUE])
    /\ UNCHANGED <<other, tu, s_next_entity_id, s_component_trie,
                   s_component_archetype_map, s_entity_archetype_map,
                   ctor, view>>

\* Entity::~Entity
Destroy(h) ==
    /\ Quiet
    /\ h \in Alive
    /\ Store(Unregister(World, handles[h].m_id, handles[h].type))
    /\ handles' = [handles EXCEPT ![h].alive = FALSE]
    /\ UNCHANGED <<other, tu, s_next_entity_id, ctor, view>>

\* Entity::Get<Component>
Get(h, c) ==
    /\ Quiet
    /\ h \in Alive
    /\ has_component(handles[h].type, c)
    /\ Store(EntityGet(World, handles[h].m_id, c))
    /\ UNCHANGED <<other, tu, s_next_entity_id, handles, ctor, view>>

\* Entity::Set<Component>
Set(h, c, value) ==
    /\ Quiet
    /\ h \in Alive
    /\ has_component(handles[h].type, c)
    /\ Store(EntitySet(World, handles[h].m_id, c, value))
    /\ UNCHANGED <<other, tu, s_next_entity_id, handles, ctor, view>>

\* Entity::HasComponent<Component>
HasComponent(h, c) ==
    /\ Quiet
    /\ h \in Alive
    /\ Store(EntityHasComponent(World, handles[h].m_id, c))
    /\ UNCHANGED <<other, tu, s_next_entity_id, handles, ctor, view>>

\* components_view<World, Components...>{} and begin()
ViewBegin(Q) ==
    /\ Quiet
    /\ LET archs == trie_view_match_mask(s_component_trie,
                                         ecs_component_mask(Q))
           r == next_row(InitialContext(Q, 1, Len(archs) + 1),
                         s_component_archetype_map, Q, archs)
       IN  /\ view' = [Q |-> Q, archs |-> archs, ctx |-> r.ctx,
                       yielded |-> <<>>, opened |-> r.opened,
                       failed |-> FALSE]
           /\ s_component_archetype_map' = r.map
    /\ UNCHANGED <<other, tu, s_next_entity_id, s_component_trie,
                   s_entity_archetype_map, handles, ctor>>

\* One pass of the loop "for(auto row : view)": it != end(), *it, ++it;
\* the pass is made when the iterator does not compare equal to end().
\* Dereferencing or advancing a column iterator that stands at end() is
\* undefined: the value read is arbitrary and the iterator may come to
\* stand anywhere in its column.  The store holds at most MaxHandles rows; a
\* loop that has yielded that many and has not finished is kept going by
\* undefined behaviour alone and is not followed further.
ViewLoopStep ==
    /\ ~Quiet
    /\ ~IteratorEq(view.ctx,
                   ViewEnd(s_component_archetype_map, view.Q, view.archs))
    /\ Len(view.yielded) < MaxHandles
    /\ LET Q    == view.Q
           row  == view.ctx.m_curr_row
           arch == MapAt(s_component_archetype_map, row.arch)
           ub   == AtEnd(arch, row)
       IN  IF ub = {}
           THEN LET r == next_row(view.ctx, s_component_archetype_map,
                                  Q, view.archs)
                IN  /\ view' = [view EXCEPT
                                  !.ctx = r.ctx,
                                  !.yielded = Append(@, ColumnSetDeref(arch, row, Q)),
                                  !.opened = @ \o r.opened]
                    /\ s_component_archetype_map' = r.map
           ELSE \E eid \in 0..MaxHandles :
                \E refs \in [Range(Q) -> Values] :
                \E next \in [Range(Q) -> 1..(MaxHandles + 1)] :
                    /\ Q[1] \notin ub => eid = arch[Q[1]][row.pos[Q[1]]].first
                    /\ \A c \in Range(Q) \ ub :
                          /\ refs[c] = arch[c][row.pos[c]].second
                          /\ next[c] = row.pos[c] + 1
                    /\ \A c \in ub : next[c] <= ColumnLen(arch, c) + 1
                    /\ LET r == after_increment(
                                  [view.ctx EXCEPT !.m_curr_row.pos = next],
                                  s_component_archetype_map, Q, view.archs)
                       IN  /\ view' = [view EXCEPT
                                         !.ctx = r.ctx,
                                         !.yielded = Append(@,
                                             [arch |-> row.arch, eid |-> eid,
                                              refs |-> refs]),
                                         !.opened = @ \o r.opened]
                           /\ s_component_archetype_map' = r.map
    /\ UNCHANGED <<other, tu, s_next_entity_id, s_component_trie,
                   s_entity_archetype_map, handles, ctor>>

\* the view and its iterators go out of scope
ViewDrop ==
    /\ ~Quiet
    /\ view' = NoView
    /\ UNCHANGED <<other, tu, s_next_entity_id, s_component_trie,
                   s_component_archetype_map, s_entity_archetype_map,
                   handles, ctor>>

Next ==
    \/ \E t \in Threads, d \in EntityTypes : CtorAllocate(t, d)
    \/ \E t \in Threads : CtorRegister(t)
    \/ \E h \in 1..Len(handles) : MoveConstruct(h)
    \/ \E h \in 1..Len(handles) : Destroy(h)
    \/ \E h \in 1..Len(handles), c \in {Position, Velocity} : Get(h, c)
    \/ \E h \in 1..Len(handles), c \in {Position, Velocity}, v \in Values :
          Set(h, c, v)
    \/ \E h \in 1..Len(handles), c \in {Position, Velocity} : HasComponent(h, c)
    \/ \E Q \in Queries : ViewBegin(Q)
    \/ ViewLoopStep
    \/ ViewDrop

Spec == Init /\ [][Next]_vars

(***************************************************************************)
(* A client that advances an iterator outside the loop: operator++ on an   *)
(* iterator that has reached eFinished.  view.failed records that          *)
(* pe::assert(false) was reached.                                          *)
(***************************************************************************)
AdvanceFinished ==
    /\ view.ctx.m_stage = "eFinished"
    /\ LET r == next_row(view.ctx, s_component_archetype_map,
                         view.Q, view.archs)
       IN  /\ view' = [view EXCEPT
                         !.ctx = r.ctx,
                         !.opened = @ \o r.opened,
                         !.failed = @ \/ next_row_asserts(view.ctx)]
           /\ s_component_archetype_map' = r.map
    /\ UNCHANGED <<other, tu, s_next_entity_id, s_component_trie,
                   s_entity_archetype_map, handles, ctor>>

SpecAdvance == Init /\ [][Next \/ AdvanceFinished]_vars

(***************************************************************************)
(* A second world.  Entity<Derived, World<Tag>> for another Tag works on   *)
(* the statics of that World<Tag>, kept in the record other; its entities  *)
(* are constructed, set and destroyed by one thread, at any time, also     *)
(* while a view of the first world is being iterated.                      *)
(***************************************************************************)
\* Entity types the program instantiates in the second world
OtherTypes == {"B"}

\* handles of the second world whose destructor has not run
OtherAlive == {h \in 1..Len(other.handles) : other.handles[h].alive}

\* the variables of the first world
FirstWorld ==
    <<s_next_entity_id, s_component_trie, s_component_archetype_map,
      s_entity_archetype_map, handles, ctor, view>>

\* Entity::Entity in the second world: m_id{AllocateID()}, then Register
OtherConstruct(d) ==
    /\ Len(other.handles) < MaxHandles
    /\ LET a == AllocateID(other.next_id)
       IN  other' = [next_id |-> a.next,
                     w |-> Register(other.w, a.id, d),
                     handles |-> Append(other.handles,
                                   [m_id |-> a.id, type |-> d, alive |-> TRUE])]
    /\ UNCHANGED <<FirstWorld, tu>>

\* Entity::~Entity in the second world
OtherDestroy(h) ==
    /\ h \in OtherAlive
    /\ other' = [other EXCEPT
                   !.w = Unregister(@, other.handles[h].m_id,
                                    other.handles[h].type),
                   !.handles[h].alive = FALSE]
    /\ UNCHANGED <<FirstWorld, tu>>

\* Entity::Set<Component> in the second world
OtherSet(h, c, value) ==
    /\ h \in OtherAlive
    /\ has_component(other.handles[h].type, c)
    /\ other' = [other EXCEPT
                   !.w = EntitySet(@, other.handles[h].m_id, c, value)]
    /\ UNCHANGED <<FirstWorld, tu>>

OtherNext ==
    \/ \E d \in OtherTypes : OtherConstruct(d)
    \/ \E h \in 1..Len(other.handles) : OtherDestroy(h)
    \/ \E h \in 1..Len(other.handles), c \in {Position, Velocity},
          v \in Values : OtherSet(h, c, v)

SpecWorlds == Init /\ [][Next \/ OtherNext]_vars

(***************************************************************************)
(* Compilation.  The translation unit instantiates component_traits for    *)
(* one new component type after another; a failed static_assert ends the   *)
(* compilation, and no program runs.                                       *)
(***************************************************************************)
InitCompile ==
    /\ s_next_entity_id = 0
    /\ s_component_trie = {}
    /\ s_component_archetype_map = <<>>
    /\ s_entity_archetype_map = <<>>
    /\ handles = <<>>
    /\ ctor = [t \in Threads |-> Idle]
    /\ view = NoView
    /\ other = NoOther
    /\ tu = EmptyTU

\* component_traits<T> is instantiated for the next component type
Instantiate ==
    /\ tu.status = "ok"
    /\ Len(tu.ids) < MaxTypes
    /\ tu' = component_traits(tu)
    /\ UNCHANGED <<FirstWorld, other>>

SpecCompile == InitCompile /\ [][Instantiate]_vars

(***************************************************************************)
(* Vocabulary of the properties.                                           *)
(***************************************************************************)
\* the table stored under bitmask b
Table(b) == MapAt(s_component_archetype_map, b)

\* the bitmasks with a table
StoreKeys == MapKeys(s_component_archetype_map)

\* entity id e has an entry in column c of the table under b
InColumn(b, c, e) == MapContains(Table(b)[c], e)

\* entity id e has an entry in some column of some table
InSomeColumn(e) ==
    \E b \in StoreKeys : \E c \in DOMAIN Table(b) : InColumn(b, c, e)

\* handles whose destructor has run
Destroyed == {h \in 1..Len(handles) : ~handles[h].alive}

\* the bitmask of the shape of handle h
MaskOf(h) == ecs_component_mask(ComponentsOf(handles[h].type))

\* the ids held by live handles whose shape contains every component of Q
LiveMatching(Q) ==
    {handles[h].m_id : h \in {x \in Alive :
        Range(Q) \subseteq Range(ComponentsOf(handles[x].type))}}

\* how often entity id e was yielded by the view
TimesYielded(e) ==
    Cardinality({i \in 1..Len(view.yielded) : view.yielded[i].eid = e})

(***************************************************************************)
(* C1.  Registry completeness: every entity id in the entity registry,     *)
(* with value b, has a table under b in the archetype store, and every     *)
(* column of that table has an entry keyed by the id.                      *)
(***************************************************************************)
RegistryCompleteness ==
    \A e \in MapKeys(s_entity_archetype_map) :
        LET b == MapAt(s_entity_archetype_map, e)
        IN  /\ b \in StoreKeys
            /\ \A c \in DOMAIN Table(b) : InColumn(b, c, e)

(***************************************************************************)
(* C2.  Index completeness: the bitmasks in the archetype index are        *)
(* exactly the keys of the archetype store, in every reachable state.      *)
(***************************************************************************)
IndexCompleteness == s_component_trie = StoreKeys

\* a handle was destroyed, two archetypes exist and a view ran to its end
IndexCompletenessWitness ==
    /\ Destroyed # {}
    /\ Cardinality(StoreKeys) = 2
    /\ view.ctx.m_stage = "eFinished"
    /\ view.opened # <<>>

(***************************************************************************)
(* C3.  Row consistency: all columns of one archetype table have the same  *)
(* set of entity-id keys, each key once per column.                        *)
(***************************************************************************)
RowConsistency ==
    \A b \in StoreKeys :
        \A c1 \in DOMAIN Table(b) :
            /\ Cardinality(MapKeys(Table(b)[c1])) = Len(Table(b)[c1])
            /\ \A c2 \in DOMAIN Table(b) :
                  MapKeys(Table(b)[c1]) = MapKeys(Table(b)[c2])

(***************************************************************************)
(* C4.  Handle RAII: once a handle with entity id e has been destroyed, e  *)
(* is absent from every column of every archetype table, in that state and *)
(* in every later one.                                                     *)
(***************************************************************************)
HandleRAII ==
    \A h \in Destroyed : ~InSomeColumn(handles[h].m_id)

(***************************************************************************)
(* C5.  Destruction drops the entity id from the entity registry: the id   *)
(* of a destroyed handle is no key of the registry, and the registry's     *)
(* keys are exactly the ids of the live handles.                           *)
(***************************************************************************)
RegistryDropped ==
    /\ \A h \in Destroyed :
          ~MapContains(s_entity_archetype_map, handles[h].m_id)
    /\ MapKeys(s_entity_archetype_map) = {handles[h].m_id : h \in Alive}

(***************************************************************************)
(* C6.  Id uniqueness: no two live handles hold the same entity id, and    *)
(* no constructor in flight holds the id of a live handle or of another    *)
(* constructor, under every interleaving of constructors and after move    *)
(* construction.                                                           *)
(***************************************************************************)
IdUniqueness ==
    /\ \A h1, h2 \in Alive :
          h1 # h2 => handles[h1].m_id # handles[h2].m_id
    /\ \A t \in Threads : \A h \in Alive :
          ctor[t].pc = "register" => ctor[t].m_id # handles[h].m_id
    /\ \A t1, t2 \in Threads :
          (t1 # t2 /\ ctor[t1].pc = "register" /\ ctor[t2].pc = "register")
              => ctor[t1].m_id # ctor[t2].m_id

(***************************************************************************)
(* C7.  Row ownership: as long as a handle is alive, also one that         *)
(* received its entity by move construction, its entity id is present in   *)
(* every column of its archetype table.                                    *)
(***************************************************************************)
RowOwnership ==
    \A h \in Alive :
        /\ MaskOf(h) \in StoreKeys
        /\ \A c \in Range(ComponentsOf(handles[h].type)) :
              /\ c \in DOMAIN Table(MaskOf(h))
              /\ InColumn(MaskOf(h), c, handles[h].m_id)

(***************************************************************************)
(* C8.  View result set: a complete iteration of a view over Q yields      *)
(* exactly one row for every live entity whose shape contains Q and no     *)
(* row for any other entity id.                                            *)
(***************************************************************************)
ViewResultSet ==
    view.ctx.m_stage = "eFinished" =>
        /\ \A e \in LiveMatching(view.Q) : TimesYielded(e) = 1
        /\ \A i \in 1..Len(view.yielded) :
              view.yielded[i].eid \in LiveMatching(view.Q)

(***************************************************************************)
(* C9.  Superset query correctness: the archetypes a view over Q opens are *)
(* bitmasks B of the index with B & Q = Q, none is opened twice, and a     *)
(* finished view has opened every one of them.                             *)
(***************************************************************************)
SupersetQuery ==
    view.ctx.m_stage # "none" =>
        LET q == ecs_component_mask(view.Q)
            matching == {b \in s_component_trie : BitAnd(b, q) = q}
        IN  /\ \A i \in 1..Len(view.opened) : view.opened[i] \in matching
            /\ \A i, j \in 1..Len(view.opened) :
                  i # j => view.opened[i] # view.opened[j]
            /\ view.ctx.m_stage = "eFinished" =>
                  Range(view.opened) = matching

\* a finished view that opened one archetype and passed over another
SupersetQueryWitness ==
    /\ view.ctx.m_stage = "eFinished"
    /\ view.opened # <<>>
    /\ view.yielded # <<>>
    /\ s_component_trie \ Range(view.opened) # {}

(***************************************************************************)
(* C10.  Lockstep columns: every row a view yields carries, for each       *)
(* queried component, the value stored under the row's entity id in that   *)
(* column of the row's archetype; and the sibling columns of every table   *)
(* iterate their keys in the same order.                                   *)
(***************************************************************************)
LockstepColumns ==
    /\ \A i \in 1..Len(view.yielded) :
          LET r == view.yielded[i]
          IN  \A c \in Range(view.Q) :
                  /\ InColumn(r.arch, c, r.eid)
                  /\ r.refs[c] = MapAt(Table(r.arch)[c], r.eid)
    /\ \A b \in StoreKeys :
          \A c1, c2 \in DOMAIN Table(b) :
              MapOrder(Table(b)[c1]) = MapOrder(Table(b)[c2])

\* C11: the constructor leaves the new entity's row holding, for every
\* component C of its shape, Default<S, C>::value where the shape specifies
\* one and the value-initialized component otherwise: that is what Get<C>()
\* returns right after construction.
Defaults ==
    [][\A t \in Threads :
         CtorRegister(t) =>
           \A c \in Range(ComponentsOf(ctor[t].type)) :
              EntityGetValue(World', ctor[t].m_id, c) =
                 IF HasDefault(ctor[t].type, c)
                 THEN DefaultOf(ctor[t].type, c) ELSE 0]_vars

\* A B and a C entity were constructed into the same table and nothing was
\* set since: the B row holds its Velocity default, the C row holds none.
DefaultsWitness ==
    \E h, g \in Alive :
       /\ handles[h].type = "B" /\ handles[g].type = "C"
       /\ Destroyed = {}
       /\ EntityGetValue(World, handles[h].m_id, Velocity) = DefaultOf("B", Velocity)
       /\ EntityGetValue(World, handles[h].m_id, Position) = 0
       /\ EntityGetValue(World, handles[g].m_id, Velocity) = 0
       /\ EntityGetValue(World, handles[g].m_id, Position) = 0

\* C12: for a live handle and a component C of its shape, Set<C>(v) makes
\* Get<C>() return v and overwrites the entry if there is one, and a value that a Set<C> stored (one that differs
\* from what the constructor wrote) is what Get<C>() on that handle returns
\* until a step that is a Set<C> on it, whatever the other handles do.
SetGetRoundTrip ==
    [][\A h \in Alive :
         handles'[h].alive =>
           \A c \in Range(ComponentsOf(handles[h].type)) :
              LET d   == handles[h].type
                  was == EntityGetValue(World, handles[h].m_id, c)
                  is  == EntityGetValue(World', handles[h].m_id, c)
                  col == Table(MaskOf(h))[c]
              IN  /\ \A v \in Values :
                        Set(h, c, v) =>
                           /\ is = v
                           /\ MapContains(col, handles[h].m_id)
                                 => Len(col') = Len(col)
                  /\ (/\ was # (IF HasDefault(d, c) THEN DefaultOf(d, c) ELSE 0)
                      /\ is # was)
                        => \E v \in Values : Set(h, c, v)]_vars

\* C13: the bitmask the registry holds for an entity is, from registration
\* on and for as long as the entry exists, the compile-time mask of the
\* shape of the handle (which is fixed, so the entry never changes), and
\* for a live handle HasComponent<C>() returns true exactly when C is in
\* the shape.
FixedShape ==
    /\ \A h \in 1..Len(handles) :
          MapContains(s_entity_archetype_map, handles[h].m_id) =>
             MapAt(s_entity_archetype_map, handles[h].m_id) = MaskOf(h)
    /\ \A h \in Alive :
          /\ MapContains(s_entity_archetype_map, handles[h].m_id)
          /\ \A c \in {Position, Velocity} :
                HasComponentValue(World, handles[h].m_id, c)
                   <=> has_component(handles[h].type, c)

\* A live handle without Velocity answers false, a live handle with it
\* answers true, and both answer true for Position.
FixedShapeWitness ==
    \E h, g \in Alive :
       /\ handles[h].type = "A" /\ handles[g].type = "C"
       /\ ~HasComponentValue(World, handles[h].m_id, Velocity)
       /\ HasComponentValue(World, handles[g].m_id, Velocity)
       /\ HasComponentValue(World, handles[h].m_id, Position)
       /\ HasComponentValue(World, handles[g].m_id, Position)

\* C14: no step removes a key from the archetype store or from the
\* archetype index, and a destructor leaves the bitmask of the destroyed
\* entity in both, with its table, also when the table has become empty.
ArchetypePersistence ==
    [][/\ StoreKeys \subseteq StoreKeys'
       /\ s_component_trie \subseteq s_component_trie'
       /\ \A h \in Alive :
             Destroy(h) => /\ MaskOf(h) \in StoreKeys'
                           /\ MaskOf(h) \in s_component_trie'
                           /\ DOMAIN Table(MaskOf(h))' = DOMAIN Table(MaskOf(h))]_vars

\* Every entity of a shape has been destroyed: its table is empty and its
\* bitmask is still a key of store and index, next to a populated table.
ArchetypePersistenceWitness ==
    \E h \in Destroyed :
       /\ MaskOf(h) \in StoreKeys \cap s_component_trie
       /\ \A c \in DOMAIN Table(MaskOf(h)) : Table(MaskOf(h))[c] = <<>>
       /\ \E g \in Alive : /\ MaskOf(g) # MaskOf(h)
                            /\ InSomeColumn(handles[g].m_id)

\* C15: begin() == end() holds exactly when no live entity matches the
\* query.  While nothing has been yielded the iterator of the view is the
\* one begin() returned.
BeginIsEnd ==
    (view.ctx.m_stage # "none" /\ view.yielded = <<>>) =>
        (IteratorEq(view.ctx,
                    ViewEnd(s_component_archetype_map, view.Q, view.archs))
           <=> LiveMatching(view.Q) = {})

\* C17: no step changes both worlds, so every operation on a handle or view
\* of one world leaves counter, store, index and registry of the other as
\* they were, and an id a view of the first world yields is never the id
\* of an entity that only the second world has.
WorldIndependence ==
    [][/\ (UNCHANGED FirstWorld) \/ (UNCHANGED other)
       /\ Len(view'.yielded) > Len(view.yielded) =>
             view'.yielded[Len(view'.yielded)].eid \notin
                (MapKeys(other.w.entity_map) \ MapKeys(s_entity_archetype_map))
      ]_vars

\* the ids AllocateID has returned so far: those of the objects constructed
\* and of the constructors that have passed their member initializer
Allocated ==
    {handles[h].m_id : h \in 1..Len(handles)}
       \cup {ctor[t].m_id : t \in {x \in Threads : ctor[x].pc # "idle"}}

\* C18: the counter starts at 0 and never decreases, and every AllocateID
\* returns the counter's value and adds one to it, so the id it returns is
\* greater than every id returned before, also those of entities that have
\* been destroyed since.
IdAllocation ==
    /\ s_next_entity_id = 0
    /\ [][/\ s_next_entity_id' >= s_next_entity_id
           /\ \A t \in Threads, d \in EntityTypes :
                 CtorAllocate(t, d) =>
                    /\ ctor'[t].m_id = s_next_entity_id
                    /\ s_next_entity_id' = s_next_entity_id + 1
                    /\ \A e \in Allocated : e < ctor'[t].m_id]_vars

\* The entity with id 0 has been destroyed and a later one holds id 1.
IdAllocationWitness ==
    /\ \E h \in Destroyed : handles[h].m_id = 0
    /\ \E g \in Alive : handles[g].m_id = 1
    /\ s_next_entity_id = 2

\* C19: the component types of the program have received distinct ids, the
\* ones the program uses throughout; the mask of every shape has bit i set
\* exactly when the component with id i is in the shape; two shapes have
\* the same mask exactly when they have the same component set; and the
\* entities of two handles are registered under the same bitmask, hence in
\* the one table the store holds for it, exactly when their shapes have the
\* same component set.
ShapeMaskAgreement ==
    /\ tu.status = "ok" /\ tu.ids = <<Position, Velocity>>
    /\ \A i, j \in 1..Len(tu.ids) : i # j => tu.ids[i] # tu.ids[j]
    /\ \A d \in EntityTypes :
          \A i \in 0..(KeyWidth - 1) :
             BitAnd(ecs_component_mask(ComponentsOf(d)), Pow2(i)) = Pow2(i)
                <=> i \in Range(ComponentsOf(d))
    /\ \A d, e \in EntityTypes :
          ecs_component_mask(ComponentsOf(d)) = ecs_component_mask(ComponentsOf(e))
             <=> Range(ComponentsOf(d)) = Range(ComponentsOf(e))
    /\ \A h, g \in Alive :
          /\ MapAt(s_entity_archetype_map, handles[h].m_id) \in StoreKeys
          /\ DOMAIN Table(MapAt(s_entity_archetype_map, handles[h].m_id))
                = Range(ComponentsOf(handles[h].type))
          /\ MapAt(s_entity_archetype_map, handles[h].m_id)
                = MapAt(s_entity_archetype_map, handles[g].m_id)
                <=> Range(ComponentsOf(handles[h].type))
                      = Range(ComponentsOf(handles[g].type))
    /\ \A i, j \in 1..Len(s_component_archetype_map) :
          s_component_archetype_map[i].first = s_component_archetype_map[j].first
             => i = j

\* Two entities whose shapes list the same components in different order
\* have their rows in one table, the only one the store holds.
ShapeMaskAgreementWitness ==
    \E h, g \in Alive :
       /\ handles[h].type = "B" /\ handles[g].type = "C"
       /\ handles[h].m_id # handles[g].m_id
       /\ InColumn(MaskOf(h), Velocity, handles[h].m_id)
       /\ InColumn(MaskOf(h), Velocity, handles[g].m_id)
       /\ Len(s_component_archetype_map) = 1

\* C20: every component id assigned lies in [0, kMaxComponents), the k-th
\* component type receiving id k - 1; the compilation is rejected exactly
\* when a type beyond the kMaxComponents-th is instantiated, and the id it
\* would have received is none a program can use.
ComponentIdBound ==
    /\ \A k \in 1..Len(tu.ids) :
          /\ tu.ids[k] = k - 1
          /\ tu.ids[k] >= 0 /\ tu.ids[k] < kMaxComponents
    /\ Len(tu.ids) <= kMaxComponents
    /\ tu.status = "rejected" <=> kMaxComponents \in tu.defined
    /\ tu.status = "rejected" => Len(tu.ids) = kMaxComponents

\* The translation unit has instantiated one component type too many.
ComponentIdBoundWitness ==
    /\ tu.status = "rejected"
    /\ Len(tu.ids) = kMaxComponents
    /\ tu.ids[kMaxComponents] = kMaxComponents - 1

\* C21: a view iterator at rest, after its constructor and after every
\* operator++, is in stage eNextRow or eFinished, never in eBeginArchetype
\* or eNextArchetype; in eNextRow its row iterator differs from the sentinel
\* and designates an existing row of a matching archetype (every column
\* iterator stands on an entry); and no row is yielded from a matching
\* archetype whose table is empty.
RestingStates ==
    view.ctx.m_stage # "none" =>
       /\ view.ctx.m_stage \in {"eNextRow", "eFinished"}
       /\ view.ctx.m_stage = "eNextRow" =>
             LET row == view.ctx.m_curr_row
             IN  /\ row # view.ctx.m_sentinel_row
                 /\ row.arch \in Range(view.archs)
                 /\ AtEnd(Table(row.arch), row) = {}
       /\ \A i \in 1..Len(view.yielded) :
             \E c \in Range(view.Q) :
                Table(view.yielded[i].arch)[c] # <<>>

\* the stage half of C21 alone
RestingStage ==
    view.ctx.m_stage # "none" =>
       /\ view.ctx.m_stage \in {"eNextRow", "eFinished"}
       /\ view.ctx.m_stage = "eNextRow" =>
             view.ctx.m_curr_row # view.ctx.m_sentinel_row

\* the rows of the tables a view over Q walks: the entity ids that have an
\* entry in every column of Q, counted table by table
RECURSIVE MatchingRows(_, _)
MatchingRows(archs, Q) ==
    IF archs = <<>> THEN 0
    ELSE Cardinality({e \in MapKeys(Table(Head(archs))[Q[1]]) :
                        \A c \in Range(Q) : InColumn(Head(archs), c, e)})
         + MatchingRows(Tail(archs), Q)

\* C22: on the snapshot a view iterates, the iterator that begin() returned
\* has been advanced at most as often as there are matching rows, and it
\* is in stage eFinished exactly when it has been advanced that often; so
\* it reaches eFinished after exactly that many advances, however many of
\* the matching archetypes are empty.
ViewTermination ==
    view.ctx.m_stage # "none" =>
       /\ Len(view.yielded) <= MatchingRows(view.archs, view.Q)
       /\ view.ctx.m_stage = "eFinished"
             <=> Len(view.yielded) = MatchingRows(view.archs, view.Q)

\* C23: eFinished is absorbing: operator++ on a finished iterator reaches
\* pe::assert(false) and leaves every field of the iterator, and the store,
\* unchanged; a finished iterator stays finished until it is dropped; the
\* loop, which stops when the iterator compares equal to end(), makes a
\* pass (dereference and advance) only from an iterator that is not finished
FinishedAbsorbing ==
    [][/\ AdvanceFinished =>
             /\ view'.failed
             /\ view'.ctx = view.ctx
             /\ s_component_archetype_map' = s_component_archetype_map
       /\ (view.ctx.m_stage = "eFinished" /\ view'.ctx.m_stage # "none") =>
             view'.ctx = view.ctx
       /\ ViewLoopStep => view.ctx.m_stage # "eFinished"
       /\ view.ctx.m_stage = "eFinished" =>
             IteratorEq(view.ctx,
                        ViewEnd(s_component_archetype_map, view.Q, view.archs))
      ]_vars

\* a finished iterator, after the pass over a row, has been advanced again
FinishedAbsorbingWitness ==
    /\ view.ctx.m_stage = "eFinished"
    /\ view.failed
    /\ Len(view.yielded) > 0

\* C24: registration gets or creates the table of the entity's mask.  When
\* the mask has no table, exactly one table is added to the store and the
\* mask is added to the index; when it has one, the key sets of store and
\* index are unchanged and every cell already in the table keeps its place
\* and its value.  In both cases the tables of the other masks are unchanged.
GetOrCreate ==
    [][\A t \in Threads : CtorRegister(t) =>
          LET b == ecs_component_mask(ComponentsOf(ctor[t].type))
              after == s_component_archetype_map'
          IN  /\ b \notin StoreKeys =>
                    /\ MapKeys(after) = StoreKeys \cup {b}
                    /\ Len(after) = Len(s_component_archetype_map) + 1
                    /\ s_component_trie' = s_component_trie \cup {b}
                    /\ b \notin s_component_trie
              /\ b \in StoreKeys =>
                    /\ MapKeys(after) = StoreKeys
                    /\ Len(after) = Len(s_component_archetype_map)
                    /\ s_component_trie' = s_component_trie
                    /\ DOMAIN MapAt(after, b) = DOMAIN Table(b)
                    /\ \A c \in DOMAIN Table(b) :
                          \A i \in 1..Len(Table(b)[c]) :
                             MapAt(after, b)[c][i] = Table(b)[c][i]
              /\ \A b2 \in StoreKeys \ {b} : MapAt(after, b2) = Table(b2)
      ]_vars

\* two entities were registered under one mask and both have their rows
GetOrCreateWitness ==
    /\ Len(handles) = 2
    /\ MaskOf(1) = MaskOf(2)
    /\ handles[1].m_id # handles[2].m_id
    /\ \A h \in 1..2 : \A c \in Range(ComponentsOf(handles[h].type)) :
          InColumn(MaskOf(h), c, handles[h].m_id)

\* C25: Set<C>(v) through a live handle with id e changes the cell (e, C) of
\* the handle's table and no other cell; destroying a handle with id e
\* removes cells keyed by e in the handle's table and changes no other
\* cell; neither changes the key set of the store or of the index.  A
\* column is unchanged apart from the cell of e when it is the same sequence
\* once the entry of e is taken out.
WriteFrame ==
    [][/\ \A h \in Alive : \A c \in {Position, Velocity} : \A value \in Values :
             (UNCHANGED <<handles, ctor, view>> /\ Set(h, c, value)) =>
                LET e == handles[h].m_id
                    after == s_component_archetype_map'
                IN  /\ MapKeys(after) = StoreKeys
                    /\ s_component_trie' = s_component_trie
                    /\ \A b \in StoreKeys \ {MaskOf(h)} :
                          MapAt(after, b) = Table(b)
                    /\ DOMAIN MapAt(after, MaskOf(h)) = DOMAIN Table(MaskOf(h))
                    /\ \A c2 \in DOMAIN Table(MaskOf(h)) \ {c} :
                          MapAt(after, MaskOf(h))[c2] = Table(MaskOf(h))[c2]
                    /\ MapErase(MapAt(after, MaskOf(h))[c], e)
                          = MapErase(Table(MaskOf(h))[c], e)
                    /\ MapContains(MapAt(after, MaskOf(h))[c], e)
                    /\ MapAt(MapAt(after, MaskOf(h))[c], e) = value
       /\ \A h \in Alive :
             (Len(handles') = Len(handles) /\ ~handles'[h].alive
                 /\ Destroy(h)) =>
                LET e == handles[h].m_id
                    after == s_component_archetype_map'
                IN  /\ MapKeys(after) = StoreKeys
                    /\ s_component_trie' = s_component_trie
                    /\ \A b \in StoreKeys \ {MaskOf(h)} :
                          MapAt(after, b) = Table(b)
                    /\ DOMAIN MapAt(after, MaskOf(h)) = DOMAIN Table(MaskOf(h))
                    /\ \A c2 \in DOMAIN Table(MaskOf(h)) :
                          /\ MapAt(after, MaskOf(h))[c2]
                                = MapErase(Table(MaskOf(h))[c2], e)
      ]_vars

\* of two entities of one table, one was destroyed and the other, written
\* by Set, keeps its row
WriteFrameWitness ==
    /\ Len(handles) = 2
    /\ MaskOf(1) = MaskOf(2)
    /\ handles[1].m_id # handles[2].m_id
    /\ ~handles[1].alive /\ handles[2].alive
    /\ ~InSomeColumn(handles[1].m_id)
    /\ InColumn(MaskOf(2), Position, handles[2].m_id)
    /\ MapAt(Table(MaskOf(2))[Position], handles[2].m_id) = 1

\* C26: the reads are read-only: Get<C>() and HasComponent<C>() through a
\* handle that has not been destroyed, the construction of a view with its
\* begin(), and every pass of the loop over it, leave the registry, the
\* store with every column, and the index as they were; none inserts a key.
ReadsReadOnly ==
    [][(\/ (/\ UNCHANGED <<handles, ctor, view>>
            /\ \E h \in Alive : \E c \in {Position, Velocity} :
                  Get(h, c) \/ HasComponent(h, c))
        \/ (/\ UNCHANGED <<handles, ctor>>
            /\ view' # view
            /\ \/ \E Q \in Queries : ViewBegin(Q)
               \/ ViewLoopStep
               \/ ViewDrop))
       => UNCHANGED <<s_entity_archetype_map, s_component_archetype_map,
                      s_component_trie>>
      ]_vars
====
